---- MODULE Spec2Model ----
(***************************************************************************)
(* Model of route_planner.py: the KnowledgeBase (network + rules), the A*  *)
(* search over (station, arrival line) states, and explain_route.          *)
(*                                                                         *)
(* Encoding.  Stations and lines are positive integers ordered like the    *)
(* Python strings they stand for; None is 0.  A link is <<a, b, line, t>>. *)
(* Coordinates are restricted to one meridian: a station's coordinate is   *)
(* its latitude in units of one kilometre of arc, so the great-circle      *)
(* distance of haversine is the absolute difference of the two values.     *)
(* Times, costs and heuristic values are integers (minutes).               *)
(* Python dicts are functions whose DOMAIN is the dict's key set.          *)
(* The heap is the set of its entries: an entry is pushed only when it     *)
(* strictly improves its state's cost, so no entry is in the heap twice,   *)
(* and heappop returns the least entry in tuple order whatever the heap's  *)
(* layout.                                                                 *)
(* used_line (written at lines 112 and 143, never read) is not modelled.   *)
(***************************************************************************)
EXTENDS Integers, Sequences, FiniteSets, TLC

VARIABLES
    links,             \* data["links"]
    stations,          \* keys of data["stations"]
    pos,               \* data["stations"][s]: the coordinate of s
    transfer_penalty,  \* data["transfer_penalty"]
    graph,             \* kb.graph (defaultdict(list))
    lines_by_station,  \* kb.lines_by_station (defaultdict(set))
    start, goal, criterio,   \* the arguments of a_star
    pc,                \* "load" | "idle" | "search" | "done" | "explained"
    openpq,            \* the heap, as the set of its <<priority, station, line>>
    g_cost,            \* g_cost dict
    parents,           \* parents dict
    outcome,           \* "none" | "path" | "nopath" | "ValueError" | "KeyError"
    path,              \* the state chain a_star returns
    score,             \* the cost a_star returns
    segs,              \* explain_route: the list `lines`
    total_tiempo, transbordos, saltos,   \* explain_route: the totals
    api                \* what the last direct KnowledgeBase call returned

vars == <<links, stations, pos, transfer_penalty, graph, lines_by_station,
          start, goal, criterio, pc, openpq, g_cost, parents, outcome, path,
          score, segs, total_tiempo, transbordos, saltos, api>>

\* ------------------------------------------------------------- bounds
MaxLinks == 3      \* links of a network in SpecOpt, SpecTime, SpecCrit
MaxLinksAll == 2   \* links of a network in Spec and SpecKB

INF == -1          \* float('inf')
None == 0
Lines == {1, 2}
Stops == {1, 2, 3}
Unknown == Cardinality(Stops) + 1    \* an id no data mentions
Criteria == {"tiempo", "saltos", "transbordos"}

Pairs == {pr \in Stops \X Stops : pr[1] < pr[2]}
LinkSet(T) == {<<pr[1], pr[2], l, t>> : pr \in Pairs, l \in Lines, t \in T}
Networks(T, n) == UNION {[1..k -> LinkSet(T)] : k \in 0..n}

\* ------------------------------------------------------------- helpers
Abs(x) == IF x >= 0 THEN x ELSE -x

\* dict[k].append(x) / dict[k].add(x) on a defaultdict
AppendTo(d, k, x) ==
    IF k \in DOMAIN d THEN [d EXCEPT ![k] = Append(@, x)] ELSE d @@ (k :> <<x>>)
AddTo(d, k, x) ==
    IF k \in DOMAIN d THEN [d EXCEPT ![k] = @ \cup {x}] ELSE d @@ (k :> {x})
\* reading d[k] on a defaultdict inserts the default for a missing key
Touch(d, k, dflt) == IF k \in DOMAIN d THEN d ELSE d @@ (k :> dflt)

\* ------------------------------------------------------------- haversine
haversine(p1, p2) == Abs(p2 - p1)

\* ------------------------------------------------------------- KnowledgeBase
RECURSIVE BuildGraph(_, _)
BuildGraph(ls, i) ==
    IF i = 0 THEN <<>>
    ELSE LET L == ls[i]
             g1 == AppendTo(BuildGraph(ls, i - 1), L[1], <<L[2], L[3], L[4]>>)
         IN  AppendTo(g1, L[2], <<L[1], L[3], L[4]>>)

RECURSIVE BuildLines(_, _)
BuildLines(ls, i) ==
    IF i = 0 THEN <<>>
    ELSE LET L == ls[i]
         IN  AddTo(AddTo(BuildLines(ls, i - 1), L[1], L[3]), L[2], L[3])

\* R1: the list stored under the key, [] for a key not yet there
neighbors(station) == IF station \in DOMAIN graph THEN graph[station] ELSE <<>>

\* R2
is_transfer_any_change(prev_line, next_line) == next_line # prev_line
is_transfer(prev_line, next_line) == prev_line # None /\ next_line # prev_line

\* R3
step_cost(base_time, transfer) ==
    base_time + (IF transfer THEN transfer_penalty ELSE 0)

\* R4
is_interchange(station) ==
    IF station \in DOMAIN lines_by_station
    THEN Cardinality(lines_by_station[station]) > 1 ELSE FALSE

\* coords raises KeyError exactly when the station has no entry
coords_raises(station) == station \notin stations
coords(station) == pos[station]

\* ------------------------------------------------------------- Init
Fresh ==
    /\ pc = "load"
    /\ graph = <<>> /\ lines_by_station = <<>>
    /\ openpq = {} /\ g_cost = <<>> /\ parents = <<>>
    /\ outcome = "none" /\ path = <<>> /\ score = 0
    /\ segs = <<>> /\ total_tiempo = 0 /\ transbordos = 0 /\ saltos = 0
    /\ api = [op |-> "none", arg |-> None, raised |-> FALSE]

\* The data and the request: a network of at most n links with times in T,
\* coordinates P (a set of maps), penalty in Pen; start in S, goal in G,
\* criterion in C.
\* Every station a link mentions has coordinates and no time is negative.
InitValid(T, n, P, Pen, S, G, C) ==
    /\ Fresh
    /\ links \in Networks(T, n)
    /\ stations = Stops
    /\ pos \in P
    /\ transfer_penalty \in Pen
    /\ start \in S /\ goal \in G /\ criterio \in C

\* ------------------------------------------------------------- __init__
Construct ==
    /\ pc = "load"
    /\ graph' = BuildGraph(links, Len(links))
    /\ lines_by_station' = BuildLines(links, Len(links))
    /\ pc' = "idle"
    /\ UNCHANGED <<links, stations, pos, transfer_penalty, start, goal,
                   criterio, openpq, g_cost, parents, outcome, path, score,
                   segs, total_tiempo, transbordos, saltos, api>>

\* ------------------------------------------------------------- a_star
h_overestimating(s) == haversine(coords(s), coords(goal)) * 4
h(s) == haversine(coords(s), coords(goal)) * 2

\* lines 105-112
StartSearch ==
    /\ pc = "idle"
    /\ openpq' = {<<0, start, None>>}
    /\ g_cost' = (<<start, None>> :> 0)
    /\ parents' = (<<start, None>> :> <<None, None>>)
    /\ pc' = "search"
    /\ UNCHANGED <<links, stations, pos, transfer_penalty, graph,
                   lines_by_station, start, goal, criterio, outcome, path,
                   score, segs, total_tiempo, transbordos, saltos,
                   api>>

\* tuple order of the heap entries (priority, (station, line))
EntryLess(a, b) ==
    \/ a[1] < b[1]
    \/ a[1] = b[1] /\ a[2] < b[2]
    \/ a[1] = b[1] /\ a[2] = b[2] /\ a[3] < b[3]

\* heappop: the least entry
HeapMin(pq) == CHOOSE e \in pq : \A o \in pq \ {e} : EntryLess(e, o)

\* lines 118-123
RECURSIVE Reconstruct_stop_early(_, _)
Reconstruct_stop_early(par, cur) ==
    IF par[cur] = <<None, None>> THEN <<>>
    ELSE Append(Reconstruct_stop_early(par, par[cur]), cur)
RECURSIVE Reconstruct(_, _)
Reconstruct(par, cur) ==
    IF cur = <<None, None>> THEN <<>>
    ELSE Append(Reconstruct(par, par[cur]), cur)

\* lines 128-133
StepOf(base_t, transfer) ==
    CASE criterio = "tiempo" -> step_cost(base_t, transfer)
      [] criterio = "saltos" -> 1 + (IF transfer THEN 1 ELSE 0)
      [] criterio = "transbordos" -> (IF transfer THEN 1 ELSE 0)
      [] OTHER -> 0
\* line 135 is reached: the criterion is none of the three
StepRaises == criterio \notin Criteria

\* line 140
Improves_or_equal(tentative_g, g, new_state) ==
    new_state \notin DOMAIN g \/ tentative_g <= g[new_state]
Improves(tentative_g, g, new_state) ==
    new_state \notin DOMAIN g \/ tentative_g < g[new_state]

\* line 144; only called for "tiempo" with both coordinates present
Priority(tentative_g, v) ==
    tentative_g + (IF criterio = "tiempo" THEN h(v) ELSE 0)

\* one pass of the body of the for loop (lines 127-145) on the locals acc
RelaxOne(acc, u, last_line, edge) ==
    LET v == edge[1]
        line == edge[2]
        base_t == edge[3]
        transfer == is_transfer(last_line, line)
        step == StepOf(base_t, transfer)
    IN  IF StepRaises THEN [acc EXCEPT !.err = "ValueError"]
        ELSE
        LET new_state == <<v, line>>
            tentative_g == acc.g[<<u, last_line>>] + step
        IN  IF ~Improves(tentative_g, acc.g, new_state) THEN acc
            ELSE
            LET g1 == IF new_state \in DOMAIN acc.g
                      THEN [acc.g EXCEPT ![new_state] = tentative_g]
                      ELSE acc.g @@ (new_state :> tentative_g)
                p1 == IF new_state \in DOMAIN acc.par
                      THEN [acc.par EXCEPT ![new_state] = <<u, last_line>>]
                      ELSE acc.par @@ (new_state :> <<u, last_line>>)
            IN  IF criterio = "tiempo" /\ (coords_raises(v) \/ coords_raises(goal))
                THEN [acc EXCEPT !.g = g1, !.par = p1, !.err = "KeyError"]
                ELSE [acc EXCEPT !.g = g1, !.par = p1,
                                 !.pq = @ \cup {<<Priority(tentative_g, v), v, line>>}]

\* the for loop over kb.neighbors(u), left at the first exception
RECURSIVE Relax(_, _, _, _, _)
Relax(acc, u, last_line, nb, i) ==
    IF i > Len(nb) \/ acc.err # "none" THEN acc
    ELSE Relax(RelaxOne(acc, u, last_line, nb[i]), u, last_line, nb, i + 1)

\* one iteration of the while loop (lines 114-145)
Step ==
    /\ pc = "search"
    /\ openpq # {}
    /\ LET e == HeapMin(openpq)
           u == e[2]
           last_line == e[3]
           rest == openpq \ {e}
       IN  IF u = goal
           THEN /\ path' = Reconstruct(parents, <<u, last_line>>)
                /\ score' = g_cost[<<u, last_line>>]
                /\ outcome' = "path"
                /\ pc' = "done"
                /\ openpq' = rest
                /\ UNCHANGED <<graph, g_cost, parents>>
           ELSE LET acc == Relax([pq |-> rest, g |-> g_cost, par |-> parents,
                                  err |-> "none"],
                                 u, last_line, neighbors(u), 1)
                IN  /\ graph' = Touch(graph, u, <<>>)
                    /\ openpq' = acc.pq
                    /\ g_cost' = acc.g
                    /\ parents' = acc.par
                    /\ outcome' = acc.err
                    /\ pc' = IF acc.err = "none" THEN "search" ELSE "done"
                    /\ UNCHANGED <<path, score>>
    /\ UNCHANGED <<links, stations, pos, transfer_penalty, lines_by_station,
                   start, goal, criterio, segs, total_tiempo, transbordos,
                   saltos, api>>

\* line 147: the heap is empty
NoPath ==
    /\ pc = "search"
    /\ openpq = {}
    /\ outcome' = "nopath"
    /\ score' = INF
    /\ pc' = "done"
    /\ UNCHANGED <<links, stations, pos, transfer_penalty, graph,
                   lines_by_station, start, goal, criterio, openpq, g_cost,
                   parents, path, segs, total_tiempo, transbordos,
                   saltos, api>>

\* ------------------------------------------------------------- explain_route
\* line 166: the first entry of kb.neighbors(u) that leads to v, <<>> for None
FirstLink(nb, v) ==
    IF \E j \in 1..Len(nb) : nb[j][1] = v
    THEN nb[CHOOSE j \in 1..Len(nb) :
                /\ nb[j][1] = v
                /\ \A k \in 1..(j - 1) : nb[k][1] # v]
    ELSE <<>>

\* line 170, for the pair (p[i], p[i+1]); i counts from 1 here, from 0 there
SegmentIsTransfer(p, i) ==
    i > 1 /\ p[i][2] # p[i - 1][2] /\ p[i][2] # None

\* lines 162-176 on the locals acc
RECURSIVE ExplainLoop(_, _, _)
ExplainLoop(p, i, acc) ==
    IF i > Len(p) - 1 THEN acc
    ELSE
    LET u == p[i][1]
        v == p[i + 1][1]
        nb == IF u \in DOMAIN acc.graph THEN acc.graph[u] ELSE <<>>
        g1 == Touch(acc.graph, u, <<>>)
        link == FirstLink(nb, v)
    IN  IF link = <<>> THEN ExplainLoop(p, i + 1, [acc EXCEPT !.graph = g1])
        ELSE
        LET line == link[2]
            base_t == link[3]
            tr == SegmentIsTransfer(p, i)
            penalty == IF tr THEN transfer_penalty ELSE 0
        IN  ExplainLoop(p, i + 1,
                [graph |-> g1,
                 total_tiempo |-> acc.total_tiempo + base_t + penalty,
                 saltos |-> acc.saltos + 1,
                 transbordos |-> acc.transbordos + (IF tr THEN 1 ELSE 0),
                 lines |-> Append(acc.lines, <<u, v, line, base_t, penalty>>)])

\* main, lines 221-225: explain_route on the chain a_star returned
ExplainRoute ==
    /\ pc = "done"
    /\ outcome = "path"
    /\ LET r == ExplainLoop(path, 1,
                    [graph |-> graph, total_tiempo |-> 0, saltos |-> 0,
                     transbordos |-> 0, lines |-> <<>>])
       IN  /\ graph' = r.graph
           /\ segs' = r.lines
           /\ total_tiempo' = r.total_tiempo
           /\ transbordos' = r.transbordos
           /\ saltos' = r.saltos
    /\ pc' = "explained"
    /\ UNCHANGED <<links, stations, pos, transfer_penalty, lines_by_station,
                   start, goal, criterio, openpq, g_cost, parents, outcome,
                   path, score, api>>

\* ------------------------------------------------------------- direct calls
CallNeighbors(s) ==
    /\ pc = "idle"
    /\ graph' = Touch(graph, s, <<>>)
    /\ api' = [op |-> "neighbors", arg |-> s, raised |-> FALSE]
    /\ UNCHANGED <<links, stations, pos, transfer_penalty, lines_by_station,
                   start, goal, criterio, pc, openpq, g_cost, parents, outcome,
                   path, score, segs, total_tiempo, transbordos,
                   saltos>>

CallIsInterchange(s) ==
    /\ pc = "idle"
    /\ lines_by_station' = Touch(lines_by_station, s, {})
    /\ api' = [op |-> "is_interchange", arg |-> s, raised |-> FALSE]
    /\ UNCHANGED <<links, stations, pos, transfer_penalty, graph, start, goal,
                   criterio, pc, openpq, g_cost, parents, outcome, path, score,
                   segs, total_tiempo, transbordos, saltos>>

CallCoords(s) ==
    /\ pc = "idle"
    /\ api' = [op |-> "coords", arg |-> s, raised |-> coords_raises(s)]
    /\ UNCHANGED <<links, stations, pos, transfer_penalty, graph,
                   lines_by_station, start, goal, criterio, pc, openpq, g_cost,
                   parents, outcome, path, score, segs, total_tiempo,
                   transbordos, saltos>>

\* ------------------------------------------------------------- specifications
Next == Construct \/ StartSearch \/ Step \/ NoPath \/ ExplainRoute

\* Every request: each criterion and one that is not supported, every start
\* of the network, every goal and the id no data mentions.
Init ==
    InitValid({1, 2}, MaxLinksAll, [Stops -> {0}], {0, 1}, Stops,
              Stops \cup {Unknown}, Criteria \cup {"otro"})

Spec == Init /\ [][Next]_vars

\* The criteria whose heuristic is 0, on networks with alternative routes.
InitOpt ==
    InitValid({1}, MaxLinks, [Stops -> {0}], {1}, Stops, Stops,
              {"saltos", "transbordos"})

SpecOpt == InitOpt /\ [][Next]_vars

\* The time criterion with the heuristic at work: the goal at 0, the start
\* 0 or 1 km up the meridian, the third station 0, 1 or 3 km up.  A link of
\* 2 minutes over 1 km is as fast as the heuristic assumes; over 3 km even
\* the link of 5 minutes is faster.
InitTime ==
    InitValid({2, 5}, MaxLinks,
              {f \in [Stops -> {0, 1, 3}] : f[3] = 0 /\ f[1] <= 1}, {1},
              {1}, {3}, {"tiempo"})

SpecTime == InitTime /\ [][Next]_vars

\* All three criteria, the heuristic at work under the time criterion.
InitCrit ==
    InitValid({1}, MaxLinks, {f \in [Stops -> {0, 1}] : f[1] = 0}, {1},
              {1}, {2, 3}, Criteria)

SpecCrit == InitCrit /\ [][Next]_vars

\* The KnowledgeBase on any data, malformed data included, and direct calls
\* of its methods.
InitKB ==
    /\ Fresh
    /\ links \in Networks({-1, 1}, MaxLinksAll)
    /\ stations \in {S \in SUBSET Stops : Cardinality(S) >= 2}
    /\ pos = [s \in stations |-> 0]
    /\ transfer_penalty = 1
    /\ start = 1 /\ goal = 1 /\ criterio = "tiempo"

NextKB ==
    \/ Construct
    \/ \E s \in Stops \cup {Unknown} : CallNeighbors(s)
    \/ \E s \in Stops \cup {Unknown} : CallIsInterchange(s)
    \/ \E s \in Stops \cup {Unknown} : CallCoords(s)

SpecKB == InitKB /\ [][NextKB]_vars


\* ------------------------------------------------------------- reference
\* What the claims measure the code against: the network as the set of its
\* directed links, the cost policy, and the least cost of a walk from
\* (start, no line) to each (station, line), by rounds of relaxation: a least
\* walk enters each (station, line) at most once, so |Stops \X Lines| rounds do.
DirLinks ==
    {<<links[i][1], links[i][2], links[i][3], links[i][4]>> : i \in DOMAIN links}
    \cup {<<links[i][2], links[i][1], links[i][3], links[i][4]>> : i \in DOMAIN links}

PolicyCost(c, prev, nxt, t) ==
    LET tr == prev # None /\ prev # nxt
    IN  CASE c = "tiempo" -> t + (IF tr THEN transfer_penalty ELSE 0)
          [] c = "saltos" -> 1 + (IF tr THEN 1 ELSE 0)
          [] OTHER -> (IF tr THEN 1 ELSE 0)

SearchStates == Stops \X (Lines \cup {None})

SetMin(S) == CHOOSE x \in S : \A y \in S : x <= y

\* the same function, as an explicit table
Table(f) == f @@ <<>>

\* one round: the least cost known after one more link, over the links E
Round(c, E, d) ==
    LET into(s) ==
            UNION {{d[<<e[1], pl>>] + PolicyCost(c, pl, e[3], e[4]) :
                        pl \in {q \in Lines \cup {None} : d[<<e[1], q>>] # INF}} :
                   e \in {x \in E : x[2] = s[1] /\ x[3] = s[2]}}
        cand(s) == into(s) \cup (IF d[s] = INF THEN {} ELSE {d[s]})
    IN  Table([s \in SearchStates |->
                  IF cand(s) = {} THEN INF ELSE SetMin(cand(s))])

RECURSIVE Least(_, _, _, _)
Least(c, E, d, k) ==
    IF k = 0 THEN d
    ELSE LET n == Round(c, E, d) IN IF n = d THEN d ELSE Least(c, E, n, k - 1)

\* least cost of a valid path from start to goal under c, INF if there is none
OptCost(c) ==
    LET d0 == Table([s \in SearchStates |->
                        IF s = <<start, None>> THEN 0 ELSE INF])
        d == Least(c, DirLinks, d0, Cardinality(Stops \X Lines))
        atGoal == {d[s] : s \in {x \in SearchStates : x[1] = goal}} \ {INF}
    IN  IF atGoal = {} THEN INF ELSE SetMin(atGoal)

Finished == pc \in {"done", "explained"}

\* the chain starts at (start, None), ends at the goal and each step rides a
\* link of the network on the line its successor state records
ValidChain(p) ==
    /\ Len(p) >= 1
    /\ p[1] = <<start, None>>
    /\ p[Len(p)][1] = goal
    /\ \A i \in 1..(Len(p) - 1) :
          \E e \in DirLinks : e[1] = p[i][1] /\ e[2] = p[i + 1][1] /\ e[3] = p[i + 1][2]

\* cumulative cost of a chain under a criterion that ignores the base time
RECURSIVE ChainCost(_, _, _)
ChainCost(c, p, i) ==
    IF i >= Len(p) THEN 0
    ELSE PolicyCost(c, p[i][2], p[i + 1][2], 0) + ChainCost(c, p, i + 1)

\* ------------------------------------------------------------- claims
\* C1: under the criteria hops and transfers (heuristic 0), whenever the goal
\* is reachable a_star returns a chain that starts at (start, no line), ends
\* at the goal, follows links of the network on the recorded lines, and the
\* returned cost is the chain's cumulative cost and the least cost of any
\* valid start-to-goal path.
C1_OptimalChain ==
    (pc = "done" /\ criterio \in {"saltos", "transbordos"})
        => LET best == OptCost(criterio)
           IN  best # INF
                 => /\ outcome = "path"
                    /\ ValidChain(path)
                    /\ score = ChainCost(criterio, path, 1)
                    /\ score = best

\* a two-link route without a transfer is returned in a network of two lines
C1_Witness ==
    /\ Finished /\ outcome = "path" /\ criterio = "transbordos"
    /\ Len(path) = 3 /\ score = 0 /\ start # goal
    /\ {links[i][3] : i \in DOMAIN links} = Lines

\* no link is faster than the 2 minutes per km the heuristic assumes
LinksWithinHeuristic ==
    \A i \in DOMAIN links :
        links[i][4] >= 2 * Abs(pos[links[i][1]] - pos[links[i][2]])

\* C2: under the time criterion, when no link is faster than the heuristic
\* assumes (base time >= 2 minutes per km between its endpoints, which with
\* h(goal) = 0 keeps h from overestimating), the cost a_star returns on
\* popping a goal state is the least, over all valid start-to-goal paths, of
\* the base times plus the penalty per line change.
C2_TimeOptimal ==
    (pc = "done" /\ criterio = "tiempo" /\ outcome = "path" /\ LinksWithinHeuristic)
        => score = OptCost("tiempo")

\* the route through a station 1 km off beats the direct link of 5 minutes
C2_Witness ==
    /\ pc = "done" /\ criterio = "tiempo" /\ outcome = "path"
    /\ LinksWithinHeuristic
    /\ Len(path) = 3 /\ pos[path[2][1]] = 1 /\ score = 4
    /\ \E i \in DOMAIN links : {links[i][1], links[i][2]} = {start, goal}

\* the goal is a station and no path from start reaches it
GoalUnreachable == goal \in stations /\ OptCost("saltos") = INF

\* the variant of the while loop
RECURSIVE SumG(_, _)
SumG(g, S) ==
    IF S = {} THEN 0
    ELSE LET x == CHOOSE y \in S : TRUE IN g[x] + SumG(g, S \ {x})

Measure ==
    <<Cardinality(SearchStates) - Cardinality(DOMAIN g_cost),
      SumG(g_cost, DOMAIN g_cost),
      Cardinality(openpq)>>

LexLess(a, b) ==
    \/ a[1] < b[1]
    \/ a[1] = b[1] /\ a[2] < b[2]
    \/ a[1] = b[1] /\ a[2] = b[2] /\ a[3] < b[3]

\* C6: when the goal is a station of the network that no path from start
\* reaches (no incident links, or another component), the search ends, under
\* every criterion, by returning the no-path result (None, infinity), and
\* raises nothing.  Ending: every pass of the while loop that stays in the
\* loop strictly lowers, in lexicographic order, (states not yet reached,
\* sum of the best known costs, heap size), none of which goes below 0 (in
\* the loop either Step or NoPath can be taken, by their guards).
C6_UnreachableEndsNoPath ==
    /\ [][(pc = "search" /\ pc' = "search")
            => /\ LexLess(Measure', Measure)
               /\ \A i \in 1..3 : Measure'[i] >= 0]_vars
    /\ []((pc = "done" /\ GoalUnreachable)
            => (outcome = "nopath" /\ score = INF /\ path = <<>>))

\* the time criterion gave up after relaxing both lines of a doubled link
C6_Witness ==
    /\ pc = "done" /\ outcome = "nopath" /\ criterio = "tiempo"
    /\ goal \in stations
    /\ Cardinality(DOMAIN g_cost) >= 4

\* C7: a search with start = goal = s, s a station, returns the one-state
\* chain [(s, None)] at cost 0 with no neighbour relaxed, under any criterion,
\* and explain_route on it reports no segment and zero time, hops, transfers.
C7_Reflexive ==
    (Finished /\ start = goal /\ start \in stations)
        => /\ outcome = "path"
           /\ path = <<<<start, None>>>>
           /\ score = 0
           /\ DOMAIN g_cost = {<<start, None>>}
           /\ pc = "explained"
                => /\ segs = <<>>
                   /\ total_tiempo = 0 /\ saltos = 0 /\ transbordos = 0

\* the start is its own goal and has links that were left alone
C7_Witness ==
    /\ pc = "explained" /\ start = goal /\ start \in stations
    /\ Len(neighbors(start)) = 2
    /\ criterio = "tiempo"

\* line changes between consecutive segments
LineChanges(sg) == Cardinality({i \in 2..Len(sg) : sg[i][3] # sg[i - 1][3]})

\* C3: explain_route flags a segment as a transfer exactly when its line
\* differs from the line of the segment before it (never the first one), so
\* the transfers it reports are the line changes between consecutive links
\* and the hops are the links of the path.
C3_TransfersAreLineChanges ==
    pc = "explained"
        => /\ saltos = Len(path) - 1
           /\ transbordos = LineChanges(segs)
           /\ transfer_penalty > 0
                => \A i \in 1..Len(segs) :
                      (segs[i][5] > 0) <=> (i > 1 /\ segs[i][3] # segs[i - 1][3])

\* C4: a search whose goal is no station of the network ends by raising the
\* unknown-stop error (the KeyError of coords), whatever the start and the
\* criterion; it returns neither a path nor the no-path result.
C4_UnknownGoalRaises ==
    (Finished /\ goal \notin stations /\ criterio \in Criteria)
        => outcome = "KeyError"

\* C5: a search under a criterion that is none of the three ends by raising
\* the unsupported-criterion error (the ValueError of line 135), also when
\* start = goal and when start has no links.
C5_UnsupportedCriterionRaises ==
    (Finished /\ criterio \notin Criteria) => outcome = "ValueError"

\* no negative time, and coordinates for every station a link names
ValidData ==
    \A i \in DOMAIN links :
        /\ links[i][4] >= 0
        /\ links[i][1] \in stations /\ links[i][2] \in stations

\* C8: once built, the station->links map and the station->lines map stay
\* as they are, key sets included, through every call of neighbors,
\* is_interchange and coords and every step of a search.
C8_NetworkNeverMutated ==
    [][(pc # "load" /\ ValidData)
          => (graph' = graph /\ lines_by_station' = lines_by_station)]_vars

\* C9: no KnowledgeBase exists for data in which a link has a negative time
\* or names a station without coordinates.
C9_InvalidDataRejected == pc # "load" => ValidData

\* C10: the total time explain_route computes from the chain of a time
\* search is the cost the search returned for it.
C10_ExplainedTimeIsScore ==
    (pc = "explained" /\ criterio = "tiempo") => total_tiempo = score

====
